---- MODULE Spec2Model ----
(***************************************************************************)
(* TransposeConv kernel of TensorFlow Lite                                 *)
(* (tensorflow/lite/kernels/transpose_conv.cc): the Init / Prepare / Eval  *)
(* / Free lifecycle of one operator node, its OpData, the tensors of the   *)
(* context it touches and the calls it makes on the context.               *)
(***************************************************************************)
EXTENDS Integers, Sequences, FiniteSets, TLC

VARIABLES
  tensors,      \* context->tensors: tensor id -> TfLiteTensor
  node,         \* TfLiteNode: inputs, outputs, temporaries, builtin_data
  data,         \* node->user_data: the OpData (NoData before Init / after Free)
  unset,        \* the OpData fields that no statement has assigned yet
  kernel_type,  \* template argument of the registered Eval
  phase,        \* "created", "ready", "freed"
  prepared,     \* the last Prepare returned kTfLiteOk
  lastOp,       \* the last callback the interpreter ran
  status,       \* its TfLiteStatus
  log,          \* the context calls and kernel invocations the last step made, in order
  prepareRepeated, \* the last callback is a Prepare that directly followed a Prepare
  evalSeq,      \* Evals since the last Prepare: "none" or "some"; right after an
                \* Eval "first", or "same" / "respecified" as it kept or changed
                \* the output shape the Eval before it left
  eigen_usage   \* eigen_support usage counter of the context

vars == <<tensors, node, data, unset, kernel_type, phase, prepared, lastOp,
          status, log, prepareRepeated, evalSeq, eigen_usage>>

----------------------------------------------------------------------------
(* Bounds of the model *)

MaxDim == 2        \* output height / width named by the output-shape spec
MaxFilter == 3     \* filter height / width

(* Program constants *)

kOutputShapeTensor == 0
kWeightsTensor == 1
kDataInputTensor == 2
kOutputTensor == 0
kTensorNotAllocated == -1

kTfLiteOk == "kTfLiteOk"
kTfLiteError == "kTfLiteError"

kReference == "kReference"
kGenericOptimized == "kGenericOptimized"

NoData == [absent |-> TRUE]

----------------------------------------------------------------------------
(* Helpers on tensors *)

RECURSIVE Product(_)
Product(s) == IF s = <<>> THEN 1 ELSE Head(s) * Product(Tail(s))

NumElements(t) == Product(t.dims)
NumDimensions(t) == Len(t.dims)
SizeOfDimension(t, i) == t.dims[i + 1]
IsConstantTensor(t) == t.allocation_type = "kTfLiteMmapRo"
IsDynamicTensor(t) == t.allocation_type = "kTfLiteDynamic"

Take(s, n) == SubSeq(s, 1, n)

(* a buffer of n elements, all v *)
Filled(n, v) == [i \in 1..n |-> v]

(* C integer division truncates toward zero *)
CDiv(a, b) == IF a >= 0 THEN a \div b ELSE -((-a) \div b)

NewTensor == [type |-> "kTfLiteNoType", dims |-> <<>>,
              allocation_type |-> "kTfLiteMemNone", i32 |-> <<>>, f |-> <<>>,
              scale |-> 0, zero_point |-> 0]

(* The record the callbacks work on: the part of the world they can change *)
Ctx(ts, tmp, d, u) ==
  [tensors |-> ts, temporaries |-> tmp, data |-> d, unset |-> u,
   log |-> <<>>, status |-> kTfLiteOk]

Emit(c, e) == [c EXCEPT !.log = Append(@, e)]

(* context->ReportError followed by return kTfLiteError, as the
   TF_LITE_ENSURE macros do *)
Fail(c, what) ==
  [Emit(c, [call |-> "ReportError", what |-> what]) EXCEPT !.status = kTfLiteError]

(* context->AddTensors(context, 1, &index): appends one tensor, returns its id *)
FirstNewTensorIndex(c) == Cardinality(DOMAIN c.tensors)

AddTensors(c) ==
  LET n == FirstNewTensorIndex(c) IN
  [Emit(c, [call |-> "AddTensors", tensor |-> n]) EXCEPT
     !.tensors = c.tensors @@ (n :> NewTensor)]

(* context->ResizeTensor(context, tensor, shape); the buffer of the resized
   tensor holds no defined values until something writes it *)
ContextResizeTensor(c, tid, shape) ==
  [Emit(c, [call |-> "ResizeTensor", tensor |-> tid, dims |-> shape]) EXCEPT
     !.tensors[tid].dims = shape, !.tensors[tid].f = <<>>]

(* TfLiteIntArrayFree(node->temporaries); node->temporaries =
   TfLiteIntArrayCreate(1); node->temporaries->data[..] = .. *)
SetTemporaries(c, ids) ==
  [Emit(c, [call |-> "TfLiteIntArrayCreate", temporaries |-> ids]) EXCEPT
     !.temporaries = ids]

SetTensorToDynamic(c, tid) ==
  [c EXCEPT !.tensors[tid].allocation_type = "kTfLiteDynamic"]

----------------------------------------------------------------------------
(* transpose_conv.cc *)

(* ResizeTensor that refuses a spec of other than 4 elements *)
ResizeTensor_ChecksCount(c, shape_id, tid) ==
  LET shape_tensor == c.tensors[shape_id] IN
  IF shape_tensor.type # "kTfLiteInt32"
  THEN Fail(c, "Output shape is not int32")
  ELSE IF NumElements(shape_tensor) # 4
  THEN Fail(c, "NumElements(output_shape) != 4")
  ELSE ContextResizeTensor(c, tid, Take(shape_tensor.i32, NumElements(shape_tensor)))

ResizeTensor(c, shape_id, tid) ==
  LET shape_tensor == c.tensors[shape_id] IN
  IF shape_tensor.type # "kTfLiteInt32"
  THEN Fail(c, "Output shape is not int32")
  ELSE ContextResizeTensor(c, tid, Take(shape_tensor.i32, NumElements(shape_tensor)))

(* AllocateIm2colTensorIfRequired without the im2col_id test: a slot per call *)
AllocateIm2colTensor_EveryCall(c) ==
  LET a == AddTensors(c)
      id == FirstNewTensorIndex(c)
      c1 == [a EXCEPT !.data.im2col_id = id, !.tensors[id].type = "kTfLiteFloat32"]
  IN SetTemporaries(c1, <<c1.data.im2col_id>>)

(* AllocateIm2colTensorIfRequired that keeps the temporaries array it finds
   and appends to it *)
AllocateIm2colTensor_AppendTemporary(c) ==
  LET c1 == IF c.data.im2col_id = kTensorNotAllocated
            THEN LET a == AddTensors(c)
                     id == FirstNewTensorIndex(c)
                 IN [a EXCEPT !.data.im2col_id = id,
                              !.tensors[id].type = "kTfLiteFloat32"]
            ELSE c
  IN SetTemporaries(c1, Append(c1.temporaries, c1.data.im2col_id))

AllocateIm2colTensorIfRequired(c) ==
  LET c1 == IF c.data.im2col_id = kTensorNotAllocated
            THEN LET a == AddTensors(c)
                     id == FirstNewTensorIndex(c)
                 IN [a EXCEPT !.data.im2col_id = id,
                              !.tensors[id].type = "kTfLiteFloat32"]
            ELSE c
  IN SetTemporaries(c1, [i \in 1..1 |-> IF i = c1.data.im2col_index + 1
                                        THEN c1.data.im2col_id ELSE 0])

(* ResizeIm2ColTensor without the check of the spec's element count *)
ResizeIm2ColTensor_NoCountCheck(c, shape_id, weights_id, input_id, im2col_id) ==
  LET output_shape == c.tensors[shape_id]
      weights == c.tensors[weights_id]
      input == c.tensors[input_id]
  IN
  IF output_shape.type # "kTfLiteInt32"
  THEN Fail(c, "im2col shape is not int32")
  ELSE
    LET im2col_shape_array ==
          << output_shape.i32[1], output_shape.i32[2], output_shape.i32[3],
             SizeOfDimension(input, 3) * SizeOfDimension(weights, 1)
               * SizeOfDimension(weights, 2) >>
        c1 == [c EXCEPT !.tensors[im2col_id].type = input.type,
                        !.tensors[im2col_id].allocation_type = "kTfLiteDynamic"]
    IN ContextResizeTensor(c1, im2col_id, im2col_shape_array)

ResizeIm2ColTensor(c, shape_id, weights_id, input_id, im2col_id) ==
  LET output_shape == c.tensors[shape_id]
      weights == c.tensors[weights_id]
      input == c.tensors[input_id]
  IN
  IF output_shape.type # "kTfLiteInt32"
  THEN Fail(c, "im2col shape is not int32")
  ELSE IF NumElements(output_shape) # 4
  THEN Fail(c, "NumElements(output_shape) != 4")
  ELSE
    LET input_depth == SizeOfDimension(input, 3)
        filter_width == SizeOfDimension(weights, 2)
        filter_height == SizeOfDimension(weights, 1)
        im2col_shape_array ==
          << output_shape.i32[1], output_shape.i32[2], output_shape.i32[3],
             input_depth * filter_height * filter_width >>
        c1 == [c EXCEPT !.tensors[im2col_id].type = input.type,
                        !.tensors[im2col_id].allocation_type = "kTfLiteDynamic"]
    IN ContextResizeTensor(c1, im2col_id, im2col_shape_array)

(* kernel_util: GetInput / GetOutput / GetTemporary give the tensor; the model
   passes tensor ids, so these give the id *)
GetInput(n, index) == n.inputs[index + 1]
GetOutput(n, index) == n.outputs[index + 1]
GetTemporary(c, index) == c.temporaries[index + 1]
NumInputs(n) == Len(n.inputs)
NumOutputs(n) == Len(n.outputs)

(* kernel_util: the combined scale input.scale * filter.scale / output.scale
   as a fraction; an error unless it is a positive finite scale *)
GetQuantizedConvolutionMultipler(input, weights, output) ==
  LET input_product_scale == input.scale * weights.scale IN
  IF input_product_scale <= 0 \/ output.scale <= 0
  THEN [status |-> kTfLiteError, num |-> 0, den |-> 1]
  ELSE [status |-> kTfLiteOk, num |-> input_product_scale, den |-> output.scale]

Pow2(k) == 2 ^ k

(* quantization_util: q = m * 2^exponent with m in [0.5, 1), multiplier =
   round(m * 2^31).  The fractions of the model have a power of two as
   denominator, so the rounding is exact. *)
QuantizeMultiplier(num, den) ==
  LET Below(e) == IF e >= 0 THEN num < den * Pow2(e) ELSE num * Pow2(-e) < den
      exponent == CHOOSE e \in -8..8 : Below(e) /\ ~Below(e - 1)
      N == IF exponent >= 0 THEN num ELSE num * Pow2(-exponent)
      D == IF exponent >= 0 THEN den * Pow2(exponent) ELSE den
  IN [multiplier |-> N * (Pow2(30) \div (D \div 2)), exponent |-> exponent]

(* kernel_util: the activation range of kTfLiteActNone on a uint8 output is
   the whole range of uint8 *)
CalculateActivationRangeUint8(output) == [min |-> 0, max |-> 255]

(* the quantized set-up without the call of CalculateActivationRangeUint8 *)
PrepareQuantized_NoActivationRange(c, n, output_shape_id, weights_id, input_id, output_id) ==
  LET c1 == SetTemporaries(c, <<c.data.scratch_tensor_index>>)
      scratch_buffer == GetTemporary(c1, 0)
      c2 == [c1 EXCEPT !.tensors[scratch_buffer].type = "kTfLiteInt32",
                       !.tensors[scratch_buffer].allocation_type = "kTfLiteArenaRw"]
      c3 == IF ~IsConstantTensor(c2.tensors[output_shape_id])
            THEN SetTensorToDynamic(c2, scratch_buffer)
            ELSE ResizeTensor(c2, output_shape_id, scratch_buffer)
  IN
  IF c3.status # kTfLiteOk THEN c3
  ELSE
    LET real_multiplier ==
          GetQuantizedConvolutionMultipler(c3.tensors[input_id],
                                           c3.tensors[weights_id],
                                           c3.tensors[output_id])
    IN
    IF real_multiplier.status # kTfLiteOk
    THEN Fail(c3, "GetQuantizedConvolutionMultipler")
    ELSE
      LET q == QuantizeMultiplier(real_multiplier.num, real_multiplier.den)
      IN [Emit(c3, [call |-> "QuantizeMultiplier"]) EXCEPT
            !.data.output_multiplier = q.multiplier,
            !.data.output_shift = -q.exponent,
            !.unset = @ \ {"output_multiplier", "output_shift"}]

(* the quantized set-up that fills in the activation range before it looks at
   the status of the multiplier computation *)
PrepareQuantized_RangeBeforeMultiplier(c, n, output_shape_id, weights_id, input_id, output_id) ==
  LET c1 == SetTemporaries(c, <<c.data.scratch_tensor_index>>)
      scratch_buffer == GetTemporary(c1, 0)
      c2 == [c1 EXCEPT !.tensors[scratch_buffer].type = "kTfLiteInt32",
                       !.tensors[scratch_buffer].allocation_type = "kTfLiteArenaRw"]
      c3 == IF ~IsConstantTensor(c2.tensors[output_shape_id])
            THEN SetTensorToDynamic(c2, scratch_buffer)
            ELSE ResizeTensor(c2, output_shape_id, scratch_buffer)
  IN
  IF c3.status # kTfLiteOk THEN c3
  ELSE
    LET real_multiplier ==
          GetQuantizedConvolutionMultipler(c3.tensors[input_id],
                                           c3.tensors[weights_id],
                                           c3.tensors[output_id])
        range == CalculateActivationRangeUint8(c3.tensors[output_id])
        c4 == [c3 EXCEPT
                 !.data.output_activation_min = range.min,
                 !.data.output_activation_max = range.max,
                 !.unset = @ \ {"output_activation_min", "output_activation_max"}]
    IN
    IF real_multiplier.status # kTfLiteOk
    THEN Fail(c4, "GetQuantizedConvolutionMultipler")
    ELSE
      LET q == QuantizeMultiplier(real_multiplier.num, real_multiplier.den)
      IN [Emit(c4, [call |-> "QuantizeMultiplier"]) EXCEPT
            !.data.output_multiplier = q.multiplier,
            !.data.output_shift = -q.exponent,
            !.unset = @ \ {"output_multiplier", "output_shift"}]

(* Prepare, lines 190-217: the quantized set-up *)
PrepareQuantized(c, n, output_shape_id, weights_id, input_id, output_id) ==
  LET c1 == SetTemporaries(c, <<c.data.scratch_tensor_index>>)
      scratch_buffer == GetTemporary(c1, 0)
      c2 == [c1 EXCEPT !.tensors[scratch_buffer].type = "kTfLiteInt32",
                       !.tensors[scratch_buffer].allocation_type = "kTfLiteArenaRw"]
      c3 == IF ~IsConstantTensor(c2.tensors[output_shape_id])
            THEN SetTensorToDynamic(c2, scratch_buffer)
            ELSE ResizeTensor(c2, output_shape_id, scratch_buffer)
  IN
  IF c3.status # kTfLiteOk THEN c3
  ELSE
    LET real_multiplier ==
          GetQuantizedConvolutionMultipler(c3.tensors[input_id],
                                           c3.tensors[weights_id],
                                           c3.tensors[output_id])
    IN
    IF real_multiplier.status # kTfLiteOk
    THEN Fail(c3, "GetQuantizedConvolutionMultipler")
    ELSE
      LET q == QuantizeMultiplier(real_multiplier.num, real_multiplier.den)
          range == CalculateActivationRangeUint8(c3.tensors[output_id])
      IN [Emit(c3, [call |-> "QuantizeMultiplier"]) EXCEPT
            !.data.output_multiplier = q.multiplier,
            !.data.output_shift = -q.exponent,
            !.data.output_activation_min = range.min,
            !.data.output_activation_max = range.max,
            !.unset = @ \ {"output_multiplier", "output_shift",
                           "output_activation_min", "output_activation_max"}]

(* Prepare, lines 180-188: size the output and the unfold buffer now, or
   defer it to Eval *)
PrepareShapes(c, output_shape_id, weights_id, input_id, output_id, im2col) ==
  IF ~IsConstantTensor(c.tensors[output_shape_id])
  THEN SetTensorToDynamic(SetTensorToDynamic(c, output_id), im2col)
  ELSE
    LET r == ResizeTensor(c, output_shape_id, output_id) IN
    IF r.status # kTfLiteOk THEN r
    ELSE ResizeIm2ColTensor(r, output_shape_id, weights_id, input_id, im2col)

Prepare(c, n) ==
  IF NumInputs(n) # 3 THEN Fail(c, "NumInputs(node) != 3")
  ELSE IF NumOutputs(n) # 1 THEN Fail(c, "NumOutputs(node) != 1")
  ELSE
    LET c1 == AllocateIm2colTensorIfRequired(c)
        output_shape_id == GetInput(n, kOutputShapeTensor)
        weights_id == GetInput(n, kWeightsTensor)
        input_id == GetInput(n, kDataInputTensor)
        output_id == GetOutput(n, kOutputTensor)
        im2col == c1.temporaries[c1.data.im2col_index + 1]
        output_shape == c1.tensors[output_shape_id]
        weights == c1.tensors[weights_id]
        input == c1.tensors[input_id]
        output == c1.tensors[output_id]
    IN
    IF NumDimensions(output_shape) # 1 THEN Fail(c1, "NumDimensions(output_shape) != 1")
    ELSE IF NumDimensions(input) # 4 THEN Fail(c1, "NumDimensions(input) != 4")
    ELSE IF NumDimensions(weights) # 4 THEN Fail(c1, "NumDimensions(weights) != 4")
    ELSE IF ~(input.type = "kTfLiteFloat32" \/ input.type = "kTfLiteUInt8")
    THEN Fail(c1, "input type")
    ELSE IF weights.type # input.type THEN Fail(c1, "weights->type != input->type")
    ELSE IF output.type # input.type THEN Fail(c1, "output->type != input->type")
    ELSE IF SizeOfDimension(input, 3) # SizeOfDimension(weights, 3)
    THEN Fail(c1, "input channels != weights channels")
    ELSE
      LET c2 == PrepareShapes(c1, output_shape_id, weights_id, input_id,
                              output_id, im2col)
      IN
      IF c2.status # kTfLiteOk THEN c2
      ELSE IF input.type = "kTfLiteUInt8"
      THEN PrepareQuantized(c2, n, output_shape_id, weights_id, input_id, output_id)
      ELSE c2

(* padding.h *)
ComputeOutSize(padding, image_size, filter_size, stride) ==
  CASE padding = "kTfLitePaddingSame" -> CDiv(image_size + stride - 1, stride)
    [] padding = "kTfLitePaddingValid" -> CDiv(image_size + stride - filter_size, stride)
    [] OTHER -> 0

ComputePadding(stride, dilation_rate, in_size, filter_size, out_size) ==
  LET effective_filter_size == (filter_size - 1) * dilation_rate + 1
      padding == CDiv((out_size - 1) * stride + effective_filter_size - in_size, 2)
  IN IF padding > 0 THEN padding ELSE 0

ComputePaddingHeightWidth(stride_height, stride_width, dilation_rate, in_height, in_width, filter_height, filter_width, padding) ==
  LET out_width == ComputeOutSize(padding, in_width, filter_width, stride_width)
      out_height == ComputeOutSize(padding, in_height, filter_height, stride_height)
  IN [height |-> ComputePadding(stride_height, dilation_rate, in_height,
                                filter_height, out_height),
      width |-> ComputePadding(stride_width, dilation_rate, in_width,
                               filter_width, out_width)]

(* reference_ops / optimized_ops: the float TransposeConv kernel.  Shapes are
   NHWC (the filter OHWI), buffers row-major, indices from 0. *)
Offset(shape, i0, i1, i2, i3) ==
  ((i0 * shape[2] + i1) * shape[3] + i2) * shape[4] + i3

(* the k-th iteration of the loop nest batch, in_y, in_x, in_channel,
   filter_y, filter_x, out_channel *)
TapAt(k, input_shape, filter_shape) ==
  LET k1 == k \div filter_shape[1]
      k2 == k1 \div filter_shape[3]
      k3 == k2 \div filter_shape[2]
      k4 == k3 \div input_shape[4]
      k5 == k4 \div input_shape[3]
  IN [out_channel |-> k % filter_shape[1],
      filter_x |-> k1 % filter_shape[3],
      filter_y |-> k2 % filter_shape[2],
      in_channel |-> k3 % input_shape[4],
      in_x |-> k4 % input_shape[3],
      in_y |-> k5 % input_shape[2],
      batch |-> k5 \div input_shape[2]]

NumTaps(input_shape, filter_shape) ==
  Product(input_shape) * filter_shape[1] * filter_shape[2] * filter_shape[3]

(* one iteration: the tap's output position, the bounds check, the
   accumulation into output_data *)
TransposeConvTap(a, acc, k) ==
  LET t == TapAt(k, a.input_shape, a.filter_shape)
      out_x_origin == t.in_x * a.op_params.stride_width
                        - a.op_params.padding_values.width
      out_y_origin == t.in_y * a.op_params.stride_height
                        - a.op_params.padding_values.height
      out_x == out_x_origin + t.filter_x
      out_y == out_y_origin + t.filter_y
      output_width == a.output_shape[3]
      output_height == a.output_shape[2]
  IN
  IF out_x >= 0 /\ out_x < output_width /\ out_y >= 0 /\ out_y < output_height
  THEN
    LET input_value ==
          a.input_data[Offset(a.input_shape, t.batch, t.in_y, t.in_x,
                              t.in_channel) + 1]
        filter_value ==
          a.filter_data[Offset(a.filter_shape, t.out_channel, t.filter_y,
                               t.filter_x, t.in_channel) + 1]
        o == Offset(a.output_shape, t.batch, out_y, out_x, t.out_channel) + 1
    IN [output_data |-> [acc.output_data EXCEPT ![o] = @ + input_value * filter_value],
        writes |-> Append(acc.writes,
                          [tap |-> t, out_y |-> out_y, out_x |-> out_x, offset |-> o])]
  ELSE acc

(* the iterations k .. last - 1: the filter_y, filter_x, out_channel loops of
   one input element (an output without elements takes no contribution) *)
RECURSIVE TransposeConvTaps(_, _, _, _)
TransposeConvTaps(a, acc, k, last) ==
  IF k = last \/ acc.output_data = <<>> THEN acc
  ELSE TransposeConvTaps(a, TransposeConvTap(a, acc, k), k + 1, last)

(* the batch, in_y, in_x, in_channel loops from input element e on *)
RECURSIVE TransposeConvFrom(_, _, _)
TransposeConvFrom(a, acc, e) ==
  LET per_element == NumTaps(a.input_shape, a.filter_shape) \div Product(a.input_shape)
  IN IF e = Product(a.input_shape) \/ acc.output_data = <<>> THEN acc
     ELSE TransposeConvFrom(a, TransposeConvTaps(a, acc, e * per_element,
                                                 (e + 1) * per_element), e + 1)

(* the output starts as zeros; the result is the output buffer and the
   writes made into it, in order *)
TransposeConv(op_params, input_shape, input_data, filter_shape, filter_data, output_shape) ==
  TransposeConvFrom([op_params |-> op_params,
                     input_shape |-> input_shape, input_data |-> input_data,
                     filter_shape |-> filter_shape, filter_data |-> filter_data,
                     output_shape |-> output_shape],
                    [output_data |-> Filled(Product(output_shape), 0),
                     writes |-> <<>>], 0)

(* What a kernel invocation is handed: the tensors (id, type, shape as
   GetTensorShape / GetTensorData see them at the call) *)
TensorArg(c, tid) ==
  [id |-> tid, type |-> c.tensors[tid].type, dims |-> c.tensors[tid].dims]

(* EvalFloat that hands the kernel the input's shape where the output's
   belongs *)
EvalFloat_OutputShapeFromInput(c, kt, params, input_id, weights_id, im2col, output_id) ==
  LET op_params ==
        [padding_type |-> "kSame",
         padding_values |-> [width |-> c.data.padding.width,
                             height |-> c.data.padding.height],
         stride_width |-> params.stride_width,
         stride_height |-> params.stride_height]
      r == TransposeConv(op_params,
                         c.tensors[input_id].dims, c.tensors[input_id].f,
                         c.tensors[weights_id].dims, c.tensors[weights_id].f,
                         c.tensors[input_id].dims)
      c1 == [c EXCEPT !.tensors[output_id].f = r.output_data]
  IN Emit(c1, [call |-> "TransposeConv",
               kernel |-> IF kt = kReference THEN "reference_ops" ELSE "optimized_ops",
               element |-> "float",
               op_params |-> op_params,
               read_unset |-> c.unset \cap {"padding"},
               input |-> TensorArg(c, input_id),
               weights |-> TensorArg(c, weights_id),
               output |-> TensorArg(c, output_id),
               im2col |-> TensorArg(c, im2col),
               writes |-> r.writes])

(* EvalFloat with the two padding values exchanged *)
EvalFloat_PaddingSwapped(c, kt, params, input_id, weights_id, im2col, output_id) ==
  LET op_params ==
        [padding_type |-> "kSame",
         padding_values |-> [width |-> c.data.padding.height,
                             height |-> c.data.padding.width],
         stride_width |-> params.stride_width,
         stride_height |-> params.stride_height]
      r == TransposeConv(op_params,
                         c.tensors[input_id].dims, c.tensors[input_id].f,
                         c.tensors[weights_id].dims, c.tensors[weights_id].f,
                         c.tensors[output_id].dims)
      c1 == [c EXCEPT !.tensors[output_id].f = r.output_data]
  IN Emit(c1, [call |-> "TransposeConv",
               kernel |-> IF kt = kReference THEN "reference_ops" ELSE "optimized_ops",
               element |-> "float",
               op_params |-> op_params,
               read_unset |-> c.unset \cap {"padding"},
               input |-> TensorArg(c, input_id),
               weights |-> TensorArg(c, weights_id),
               output |-> TensorArg(c, output_id),
               im2col |-> TensorArg(c, im2col),
               writes |-> r.writes])

EvalFloat(c, kt, params, input_id, weights_id, im2col, output_id) ==
  LET op_params ==
        [padding_type |-> "kSame",
         padding_values |-> [width |-> c.data.padding.width,
                             height |-> c.data.padding.height],
         stride_width |-> params.stride_width,
         stride_height |-> params.stride_height]
      r == TransposeConv(op_params,
                         c.tensors[input_id].dims, c.tensors[input_id].f,
                         c.tensors[weights_id].dims, c.tensors[weights_id].f,
                         c.tensors[output_id].dims)
      c1 == [c EXCEPT !.tensors[output_id].f = r.output_data]
  IN Emit(c1, [call |-> "TransposeConv",
               kernel |-> IF kt = kReference THEN "reference_ops" ELSE "optimized_ops",
               element |-> "float",
               op_params |-> op_params,
               read_unset |-> c.unset \cap {"padding"},
               input |-> TensorArg(c, input_id),
               weights |-> TensorArg(c, weights_id),
               output |-> TensorArg(c, output_id),
               im2col |-> TensorArg(c, im2col),
               writes |-> r.writes])

(* EvalQuantized that hands over the stored shift as it is *)
EvalQuantized_ShiftNotNegated(c, params, input_id, weights_id, im2col, output_id, scratch_buffer) ==
  LET op_params ==
        [padding_type |-> "kSame",
         padding_values |-> [width |-> c.data.padding.width,
                             height |-> c.data.padding.height],
         stride_width |-> params.stride_width,
         stride_height |-> params.stride_height,
         input_offset |-> -c.tensors[input_id].zero_point,
         output_offset |-> c.tensors[output_id].zero_point,
         weights_offset |-> -c.tensors[weights_id].zero_point,
         output_multiplier |-> c.data.output_multiplier,
         output_shift |-> c.data.output_shift,
         quantized_activation_min |-> c.data.output_activation_min,
         quantized_activation_max |-> c.data.output_activation_max]
  IN Emit(c, [call |-> "TransposeConv",
              kernel |-> "reference_ops",
              element |-> "uint8",
              op_params |-> op_params,
              read_unset |-> c.unset \cap {"padding", "output_multiplier",
                                           "output_shift", "output_activation_min",
                                           "output_activation_max"},
              input |-> TensorArg(c, input_id),
              weights |-> TensorArg(c, weights_id),
              output |-> TensorArg(c, output_id),
              im2col |-> TensorArg(c, im2col),
              scratch_buffer |-> TensorArg(c, scratch_buffer),
              writes |-> <<>>])

EvalQuantized(c, params, input_id, weights_id, im2col, output_id, scratch_buffer) ==
  LET input_offset == -c.tensors[input_id].zero_point
      filter_offset == -c.tensors[weights_id].zero_point
      output_offset == c.tensors[output_id].zero_point
      op_params ==
        [padding_type |-> "kSame",
         padding_values |-> [width |-> c.data.padding.width,
                             height |-> c.data.padding.height],
         stride_width |-> params.stride_width,
         stride_height |-> params.stride_height,
         input_offset |-> input_offset,
         output_offset |-> output_offset,
         weights_offset |-> filter_offset,
         output_multiplier |-> c.data.output_multiplier,
         output_shift |-> -c.data.output_shift,
         quantized_activation_min |-> c.data.output_activation_min,
         quantized_activation_max |-> c.data.output_activation_max]
  IN Emit(c, [call |-> "TransposeConv",
              kernel |-> "reference_ops",
              element |-> "uint8",
              op_params |-> op_params,
              read_unset |-> c.unset \cap {"padding", "output_multiplier",
                                           "output_shift", "output_activation_min",
                                           "output_activation_max"},
              input |-> TensorArg(c, input_id),
              weights |-> TensorArg(c, weights_id),
              output |-> TensorArg(c, output_id),
              im2col |-> TensorArg(c, im2col),
              scratch_buffer |-> TensorArg(c, scratch_buffer),
              writes |-> <<>>])

(* EvalCompute whose quantized case exists for the reference variant only *)
EvalCompute_QuantizedOnlyReference(c, n, kt, input_id, weights_id, im2col, output_id, output_shape_id) ==
  LET params == n.builtin_data
      output == c.tensors[output_id]
      weights == c.tensors[weights_id]
      input == c.tensors[input_id]
      padding == ComputePaddingHeightWidth(params.stride_height, params.stride_width,
                                           1, SizeOfDimension(output, 1),
                                           SizeOfDimension(output, 2),
                                           SizeOfDimension(weights, 1),
                                           SizeOfDimension(weights, 2), params.padding)
      c1 == [Emit(c, [call |-> "ComputePadding", padding |-> padding]) EXCEPT
               !.data.padding = padding, !.unset = @ \ {"padding"}]
  IN
  CASE input.type = "kTfLiteFloat32" ->
         EvalFloat(c1, kt, params, input_id, weights_id, im2col, output_id)
    [] input.type = "kTfLiteUInt8" /\ kt = kReference ->
         LET scratch_buffer == GetTemporary(c1, 0)
             c2 == IF IsDynamicTensor(c1.tensors[scratch_buffer])
                   THEN ResizeTensor(c1, output_shape_id, scratch_buffer)
                   ELSE c1
         IN IF c2.status # kTfLiteOk THEN c2
            ELSE EvalQuantized(c2, params, input_id, weights_id, im2col, output_id,
                               scratch_buffer)
    [] OTHER -> Fail(c1, "Type is not currently supported")

(* EvalCompute that hands the accumulator to the kernel and resizes it
   afterwards *)
EvalCompute_ScratchResizedLate(c, n, kt, input_id, weights_id, im2col, output_id, output_shape_id) ==
  LET params == n.builtin_data
      output == c.tensors[output_id]
      weights == c.tensors[weights_id]
      input == c.tensors[input_id]
      padding == ComputePaddingHeightWidth(params.stride_height, params.stride_width,
                                           1, SizeOfDimension(output, 1),
                                           SizeOfDimension(output, 2),
                                           SizeOfDimension(weights, 1),
                                           SizeOfDimension(weights, 2), params.padding)
      c1 == [Emit(c, [call |-> "ComputePadding", padding |-> padding]) EXCEPT
               !.data.padding = padding, !.unset = @ \ {"padding"}]
  IN
  CASE input.type = "kTfLiteFloat32" ->
         EvalFloat(c1, kt, params, input_id, weights_id, im2col, output_id)
    [] input.type = "kTfLiteUInt8" ->
         LET scratch_buffer == GetTemporary(c1, 0)
             c2 == EvalQuantized(c1, params, input_id, weights_id, im2col,
                                 output_id, scratch_buffer)
         IN IF IsDynamicTensor(c1.tensors[scratch_buffer])
            THEN ResizeTensor(c2, output_shape_id, scratch_buffer)
            ELSE c2
    [] OTHER -> Fail(c1, "Type is not currently supported")

(* Eval, lines 305-338: padding, then the kernel for the input's type *)
EvalCompute(c, n, kt, input_id, weights_id, im2col, output_id, output_shape_id) ==
  LET params == n.builtin_data
      output == c.tensors[output_id]
      weights == c.tensors[weights_id]
      input == c.tensors[input_id]
      width == SizeOfDimension(output, 2)
      height == SizeOfDimension(output, 1)
      filter_width == SizeOfDimension(weights, 2)
      filter_height == SizeOfDimension(weights, 1)
      padding == ComputePaddingHeightWidth(params.stride_height, params.stride_width,
                                           1, height, width, filter_height,
                                           filter_width, params.padding)
      c1 == [Emit(c, [call |-> "ComputePadding", padding |-> padding]) EXCEPT
               !.data.padding = padding, !.unset = @ \ {"padding"}]
  IN
  CASE input.type = "kTfLiteFloat32" ->
         EvalFloat(c1, kt, params, input_id, weights_id, im2col, output_id)
    [] input.type = "kTfLiteUInt8" ->
         LET scratch_buffer == GetTemporary(c1, 0)
             c2 == IF IsDynamicTensor(c1.tensors[scratch_buffer])
                   THEN ResizeTensor(c1, output_shape_id, scratch_buffer)
                   ELSE c1
         IN IF c2.status # kTfLiteOk THEN c2
            ELSE EvalQuantized(c2, params, input_id, weights_id, im2col, output_id,
                               scratch_buffer)
    [] OTHER -> Fail(c1, "Type is not currently supported")

(* Eval that resizes the output only while it has no shape yet *)
Eval_ResizeOutputOnce(c, n, kt) ==
  LET output_shape_id == GetInput(n, kOutputShapeTensor)
      weights_id == GetInput(n, kWeightsTensor)
      input_id == GetInput(n, kDataInputTensor)
      output_id == GetOutput(n, kOutputTensor)
      im2col == c.temporaries[c.data.im2col_index + 1]
      c1 == IF IsDynamicTensor(c.tensors[output_id]) /\ c.tensors[output_id].dims = <<>>
            THEN ResizeTensor(c, output_shape_id, output_id)
            ELSE c
  IN
  IF c1.status # kTfLiteOk THEN c1
  ELSE
    LET c2 == IF IsDynamicTensor(c1.tensors[im2col])
              THEN ResizeIm2ColTensor(c1, output_shape_id, weights_id, input_id, im2col)
              ELSE c1
    IN IF c2.status # kTfLiteOk THEN c2
       ELSE EvalCompute(c2, n, kt, input_id, weights_id, im2col, output_id,
                        output_shape_id)

Eval(c, n, kt) ==
  LET output_shape_id == GetInput(n, kOutputShapeTensor)
      weights_id == GetInput(n, kWeightsTensor)
      input_id == GetInput(n, kDataInputTensor)
      output_id == GetOutput(n, kOutputTensor)
      im2col == c.temporaries[c.data.im2col_index + 1]
      c1 == IF IsDynamicTensor(c.tensors[output_id])
            THEN ResizeTensor(c, output_shape_id, output_id)
            ELSE c
  IN
  IF c1.status # kTfLiteOk THEN c1
  ELSE
    LET c2 == IF IsDynamicTensor(c1.tensors[im2col])
              THEN ResizeIm2ColTensor(c1, output_shape_id, weights_id, input_id, im2col)
              ELSE c1
    IN IF c2.status # kTfLiteOk THEN c2
       ELSE EvalCompute(c2, n, kt, input_id, weights_id, im2col, output_id,
                        output_shape_id)

----------------------------------------------------------------------------
(* The graphs the node is put in *)

Tensor(type, dims, allocation_type, i32, f, scale, zero_point) ==
  [type |-> type, dims |-> dims, allocation_type |-> allocation_type,
   i32 |-> i32, f |-> f, scale |-> scale, zero_point |-> zero_point]


(* The values of an output-shape spec with n elements naming batch 1, height
   oh, width ow and 1 output channel *)
SpecValues(n, oh, ow) == Take(<<1, oh, ow, 1, 1>>, n)

OutDims == 1..MaxDim
FilterDims == 1..MaxFilter
Strides == {<<1, 1>>, <<2, 1>>}
Paddings == {"kTfLitePaddingSame", "kTfLitePaddingValid"}
KernelTypes == {kReference, kGenericOptimized}
GarbageValues == {-3, 9}

(* scale and zero point of input, weights and output; scales in units of
   1/1, the output scale a power of two *)
ValidQuant == [in |-> 1, w |-> 1, out |-> 1, zin |-> 0, zw |-> 0, zout |-> 0]
QuantParams ==
  { ValidQuant,
    [in |-> 3, w |-> 1, out |-> 8, zin |-> 1, zw |-> 2, zout |-> 3],
    [in |-> -1, w |-> 1, out |-> 1, zin |-> 0, zw |-> 0, zout |-> 0] }

DefaultGeometry ==
  [oh |-> 2, ow |-> 1, fh |-> 1, fw |-> 2, stride |-> <<2, 1>>,
   padding |-> "kTfLitePaddingSame"]

Geometries ==
  [oh : OutDims, ow : OutDims, fh : FilterDims, fw : FilterDims,
   stride : Strides, padding : Paddings]

(* a non-constant spec is rewritten before every Eval: its first values are
   not part of the configuration *)
GeometriesFor(is_const) ==
  IF is_const THEN Geometries ELSE {g \in Geometries : g.oh = 1 /\ g.ow = 1}

(* well-formed nodes of every geometry, under the registration
   Register_TRANSPOSE_CONV; ConfigsTyped has both registrations *)
ConfigsValid ==
  UNION { [spec_const : {k}, spec_dims : {<<4>>}, spec_type : {"kTfLiteInt32"},
           in_type : {t}, w_type : {t}, out_type : {t}, defect : {"none"},
           geometry : GeometriesFor(k),
           quant : IF t = "kTfLiteUInt8" THEN QuantParams ELSE {ValidQuant},
           kernel_type : {kGenericOptimized}]
          : k \in BOOLEAN, t \in {"kTfLiteFloat32", "kTfLiteUInt8"} }

(* every output-shape spec and every combination of element types *)
ConfigsTyped ==
  [spec_const : BOOLEAN,
   spec_dims : {<<4>>, <<3>>, <<5>>, <<2, 2>>, <<1, 3>>},
   spec_type : {"kTfLiteInt32", "kTfLiteInt64"},
   in_type : {"kTfLiteFloat32", "kTfLiteUInt8", "kTfLiteInt16"},
   w_type : {"kTfLiteFloat32", "kTfLiteUInt8"},
   out_type : {"kTfLiteFloat32", "kTfLiteUInt8"},
   defect : {"none"}, geometry : {DefaultGeometry}, quant : {ValidQuant},
   kernel_type : KernelTypes]

(* nodes that fail one of the other sanity checks of Prepare *)
ConfigsDefective ==
  UNION { [spec_const : BOOLEAN, spec_dims : {<<4>>}, spec_type : {"kTfLiteInt32"},
           in_type : {t}, w_type : {t}, out_type : {t},
           defect : {"NumInputs", "NumOutputs", "InputRank", "WeightsRank", "Channels"},
           geometry : {DefaultGeometry}, quant : {ValidQuant},
           kernel_type : {kGenericOptimized}]
          : t \in {"kTfLiteFloat32", "kTfLiteUInt8"} }

Configs == ConfigsValid \cup ConfigsTyped \cup ConfigsDefective

InputDepth == 2     \* channels of the data input

InitialTensors(cfg) ==
  LET g == cfg.geometry
      q == cfg.quant
      spec == Tensor(cfg.spec_type, cfg.spec_dims,
                     IF cfg.spec_const THEN "kTfLiteMmapRo" ELSE "kTfLiteArenaRw",
                     SpecValues(Product(cfg.spec_dims), g.oh, g.ow), <<>>, 0, 0)
      wdims == CASE cfg.defect = "WeightsRank" -> <<g.fh, g.fw, InputDepth>>
                 [] cfg.defect = "Channels" -> <<1, g.fh, g.fw, InputDepth + 1>>
                 [] OTHER -> <<1, g.fh, g.fw, InputDepth>>
      idims == IF cfg.defect = "InputRank" THEN <<1, 1, InputDepth>>
               ELSE <<1, 1, 1, InputDepth>>
      weights == Tensor(cfg.w_type, wdims, "kTfLiteMmapRo", <<>>,
                        IF cfg.w_type = "kTfLiteFloat32"
                        THEN Filled(Product(wdims), 1) ELSE <<>>,
                        q.w, q.zw)
      input == Tensor(cfg.in_type, idims, "kTfLiteArenaRw", <<>>,
                      IF cfg.in_type = "kTfLiteFloat32"
                      THEN Filled(Product(idims), 1) ELSE <<>>,
                      q.in, q.zin)
      output == Tensor(cfg.out_type, <<>>, "kTfLiteArenaRw", <<>>, <<>>,
                       q.out, q.zout)
  IN [i \in 0..3 |-> CASE i = 0 -> spec [] i = 1 -> weights
                        [] i = 2 -> input [] OTHER -> output]

InitialNode(cfg) ==
  [inputs |-> IF cfg.defect = "NumInputs" THEN <<0, 1>> ELSE <<0, 1, 2>>,
   outputs |-> IF cfg.defect = "NumOutputs" THEN <<>> ELSE <<3>>,
   temporaries |-> <<>>,
   builtin_data |-> [stride_height |-> cfg.geometry.stride[1],
                     stride_width |-> cfg.geometry.stride[2],
                     padding |-> cfg.geometry.padding]]

----------------------------------------------------------------------------
(* The interpreter: the graph is built, then Init, Prepare and Eval run in the
   order the two-phase lifecycle allows, then Free *)

Init ==
  \E cfg \in Configs :
    /\ tensors = InitialTensors(cfg)
    /\ node = InitialNode(cfg)
    /\ kernel_type = cfg.kernel_type
    /\ data = NoData
    /\ unset = {}
    /\ phase = "created"
    /\ prepared = FALSE
    /\ lastOp = "none"
    /\ status = kTfLiteOk
    /\ log = <<>>
    /\ prepareRepeated = FALSE
    /\ evalSeq = "none"
    /\ eigen_usage = 0

Cur == Ctx(tensors, node.temporaries, data, unset)

(* the callback's effects on the context, the node and the OpData *)
Commit(c) ==
  /\ tensors' = c.tensors
  /\ node' = [node EXCEPT !.temporaries = c.temporaries]
  /\ data' = c.data
  /\ unset' = c.unset
  /\ status' = c.status
  /\ log' = c.log

(* Init, lines 72-82: new OpData leaves every member without an initializer
   indeterminate *)
OpInit(c, garbage) ==
  LET d == [im2col_id |-> kTensorNotAllocated, im2col_index |-> 0,
            padding |-> [height |-> garbage, width |-> garbage],
            output_multiplier |-> garbage, output_shift |-> garbage,
            output_activation_min |-> garbage, output_activation_max |-> garbage,
            scratch_tensor_index |-> garbage]
      c1 == AddTensors([c EXCEPT !.data = d])
  IN [c1 EXCEPT !.data.scratch_tensor_index = FirstNewTensorIndex(c),
                !.unset = {"padding", "output_multiplier", "output_shift",
                           "output_activation_min", "output_activation_max"}]

InitStep ==
  /\ phase = "created"
  /\ \E garbage \in GarbageValues : Commit(OpInit(Cur, garbage))
  /\ phase' = "ready"
  /\ lastOp' = "Init"
  /\ eigen_usage' = eigen_usage + 1
  /\ UNCHANGED <<kernel_type, prepared, prepareRepeated, evalSeq>>

PrepareStep ==
  /\ phase = "ready"
  /\ LET c == Prepare(Cur, node) IN
       /\ Commit(c)
       /\ prepared' = (c.status = kTfLiteOk)
  /\ lastOp' = "Prepare"
  /\ prepareRepeated' = (lastOp = "Prepare")
  /\ evalSeq' = "none"
  /\ UNCHANGED <<kernel_type, phase, eigen_usage>>

(* between a successful Prepare and an Eval, or between two Evals, whoever
   produces a non-constant output-shape spec writes new values *)
WriteOutputShape ==
  /\ phase = "ready"
  /\ prepared
  /\ ~IsConstantTensor(tensors[GetInput(node, kOutputShapeTensor)])
  /\ \E oh \in OutDims, ow \in OutDims :
       LET id == GetInput(node, kOutputShapeTensor)
           v == SpecValues(NumElements(tensors[id]), oh, ow)
       IN /\ v # tensors[id].i32
          /\ tensors' = [tensors EXCEPT ![id].i32 = v]
  /\ lastOp' = "WriteOutputShape"
  /\ log' = <<>>
  /\ prepareRepeated' = FALSE
  /\ evalSeq' = IF evalSeq = "none" THEN "none" ELSE "some"
  /\ UNCHANGED <<node, data, unset, kernel_type, phase, prepared, status,
                 eigen_usage>>

EvalStep ==
  /\ phase = "ready"
  /\ prepared
  /\ LET c == Eval(Cur, node, kernel_type)
         before == tensors[GetOutput(node, kOutputTensor)].dims
         after == c.tensors[GetOutput(node, kOutputTensor)].dims
     IN /\ Commit(c)
        /\ evalSeq' = CASE evalSeq = "none" -> "first"
                         [] after # before -> "respecified"
                         [] OTHER -> "same"
  /\ lastOp' = "Eval"
  /\ prepareRepeated' = FALSE
  /\ UNCHANGED <<kernel_type, phase, prepared, eigen_usage>>

(* Free, lines 84-87 *)
FreeStep ==
  /\ phase = "ready"
  /\ phase' = "freed"
  /\ data' = NoData
  /\ unset' = {}
  /\ eigen_usage' = eigen_usage - 1
  /\ lastOp' = "Free"
  /\ log' = <<>>
  /\ prepared' = FALSE
  /\ prepareRepeated' = FALSE
  /\ evalSeq' = "none"
  /\ UNCHANGED <<tensors, node, kernel_type, status>>

Next == InitStep \/ PrepareStep \/ WriteOutputShape \/ EvalStep \/ FreeStep

Spec == Init /\ [][Next]_vars

----------------------------------------------------------------------------
(* Float nodes with data: the numeric behaviour of Eval *)

MaxIn == 2         \* height / width of the data input

(* the buffer a, a + d, a + 2d, ... of n elements *)
Ramp(n, a, d) == [i \in 1..n |-> a + d * (i - 1)]

(* output sizes along one axis for input size i, filter size f and stride s:
   the exact fit of the scattered taps and the multiple of the stride *)
OutChoices(i, f, s) == {(i - 1) * s + f, i * s}

KernelShapes(is_const) ==
  UNION { [ih : {ih}, iw : {iw}, fh : {fh}, fw : {fw}, stride : {st},
           oh : IF is_const THEN OutChoices(ih, fh, st[1]) ELSE {1},
           ow : IF is_const THEN OutChoices(iw, fw, st[2]) ELSE {1}]
          : ih \in 1..MaxIn, iw \in {1, MaxIn}, fh \in FilterDims,
            fw \in {1, MaxFilter}, st \in Strides }

(* input and output channels *)
KernelChannels == {<<2, 1>>, <<1, 2>>}

(* the scenario of spec section 8 (input and filter 2x2 of ones, output 3x3,
   exact-fit padding) and the boundary case (input 1x1, filter 3x3, output
   3x3, same-size padding) *)
ScenarioShape == [ih |-> 2, iw |-> 2, fh |-> 2, fw |-> 2, stride |-> <<1, 1>>,
                  oh |-> 3, ow |-> 3]
BoundaryShape == [ih |-> 1, iw |-> 1, fh |-> 3, fw |-> 3, stride |-> <<1, 1>>,
                  oh |-> 3, ow |-> 3]

KernelConfigs ==
  [spec_const : {TRUE}, shape : KernelShapes(TRUE), channels : KernelChannels,
   padding : Paddings, values : {"ramp"}, kernel_type : {kGenericOptimized}]
  \cup
  [spec_const : {FALSE},
   shape : {g \in KernelShapes(FALSE) : g.fh = 2 /\ g.fw = MaxFilter},
   channels : {<<1, 1>>}, padding : Paddings, values : {"ramp"},
   kernel_type : {kReference}]
  \cup
  [spec_const : BOOLEAN, shape : {ScenarioShape, BoundaryShape},
   channels : {<<1, 1>>}, padding : Paddings, values : {"ones"},
   kernel_type : KernelTypes]

KernelTensors(k) ==
  LET g == k.shape
      wdims == <<k.channels[2], g.fh, g.fw, k.channels[1]>>
      idims == <<1, g.ih, g.iw, k.channels[1]>>
      spec == Tensor("kTfLiteInt32", <<4>>,
                     IF k.spec_const THEN "kTfLiteMmapRo" ELSE "kTfLiteArenaRw",
                     <<1, g.oh, g.ow, k.channels[2]>>, <<>>, 0, 0)
      weights == Tensor("kTfLiteFloat32", wdims, "kTfLiteMmapRo", <<>>,
                        IF k.values = "ones" THEN Filled(Product(wdims), 1)
                        ELSE Ramp(Product(wdims), -1, 2), 0, 0)
      input == Tensor("kTfLiteFloat32", idims, "kTfLiteArenaRw", <<>>,
                      IF k.values = "ones" THEN Filled(Product(idims), 1)
                      ELSE Ramp(Product(idims), 1, 1), 0, 0)
      output == Tensor("kTfLiteFloat32", <<>>, "kTfLiteArenaRw", <<>>, <<>>, 0, 0)
  IN [i \in 0..3 |-> CASE i = 0 -> spec [] i = 1 -> weights
                        [] i = 2 -> input [] OTHER -> output]

KernelNode(k) ==
  [inputs |-> <<0, 1, 2>>, outputs |-> <<3>>, temporaries |-> <<>>,
   builtin_data |-> [stride_height |-> k.shape.stride[1],
                     stride_width |-> k.shape.stride[2],
                     padding |-> k.padding]]

KernelInit ==
  \E k \in KernelConfigs :
    /\ tensors = KernelTensors(k)
    /\ node = KernelNode(k)
    /\ kernel_type = k.kernel_type
    /\ data = NoData
    /\ unset = {}
    /\ phase = "created"
    /\ prepared = FALSE
    /\ lastOp = "none"
    /\ status = kTfLiteOk
    /\ log = <<>>
    /\ prepareRepeated = FALSE
    /\ evalSeq = "none"
    /\ eigen_usage = 0

SpecKernel == KernelInit /\ [][Next]_vars

----------------------------------------------------------------------------
(* Vocabulary of the properties *)

OutputShapeT == tensors[GetInput(node, kOutputShapeTensor)]
WeightsT == tensors[GetInput(node, kWeightsTensor)]
InputT == tensors[GetInput(node, kDataInputTensor)]
OutputId == GetOutput(node, kOutputTensor)
OutputT == tensors[OutputId]

Calls(kind) == {i \in DOMAIN log : log[i].call = kind}
KernelRuns == {log[i] : i \in Calls("TransposeConv")}
ResizedTensors == {log[i].tensor : i \in Calls("ResizeTensor")}

SpecIsConstant == IsConstantTensor(OutputShapeT)
SpecOk ==
  /\ NumDimensions(OutputShapeT) = 1
  /\ OutputShapeT.type = "kTfLiteInt32"
  /\ NumElements(OutputShapeT) = 4
Quantized == InputT.type = "kTfLiteUInt8"

(* the padding of an output of shape dims under the node's filter and params *)
PaddingFor(dims) ==
  ComputePaddingHeightWidth(node.builtin_data.stride_height,
                            node.builtin_data.stride_width, 1, dims[2], dims[3],
                            WeightsT.dims[2], WeightsT.dims[3],
                            node.builtin_data.padding)

----------------------------------------------------------------------------
\* C1: with a non-constant output-shape spec, every Eval resizes the output to
\* the values the spec has at that call and computes OpData.padding (and the
\* padding handed to the kernel) from that shape, the filter, the strides and
\* the padding mode, whatever shape an earlier Eval left.
C1_EvalReresolvesDynamicShape ==
  (lastOp = "Eval" /\ ~SpecIsConstant /\ SpecOk) =>
    LET spec == OutputShapeT.i32
        expected == PaddingFor(spec)
    IN /\ status = kTfLiteOk
       /\ OutputT.dims = spec
       /\ log[1] = [call |-> "ResizeTensor", tensor |-> OutputId, dims |-> spec]
       /\ data.padding = expected
       /\ Calls("ComputePadding") # {}
       /\ KernelRuns # {}
       /\ \A k \in KernelRuns :
            /\ k.output.dims = spec
            /\ k.op_params.padding_values.height = expected.height
            /\ k.op_params.padding_values.width = expected.width

C1_Witness ==
  /\ lastOp = "Eval" /\ status = kTfLiteOk
  /\ ~SpecIsConstant /\ SpecOk
  /\ evalSeq = "respecified"
  /\ data.padding.height > 0
  /\ data.padding.width = 0

\* C2: with a constant spec the output, the unfold buffer and (quantized) the
\* accumulator are resized in Prepare and no Eval makes a ResizeTensor call;
\* with a non-constant spec every Eval resizes each of them.
C2_StaticWhenConstantElseResizedPerEval ==
  LET buffers == {OutputId, data.im2col_id} \cup
                 (IF Quantized THEN {data.scratch_tensor_index} ELSE {})
  IN /\ (lastOp = "Prepare" /\ status = kTfLiteOk /\ SpecIsConstant)
          => buffers \subseteq ResizedTensors
     /\ (lastOp = "Eval" /\ status = kTfLiteOk /\ SpecIsConstant)
          => ResizedTensors = {}
     /\ (lastOp = "Eval" /\ status = kTfLiteOk /\ ~SpecIsConstant)
          => buffers \subseteq ResizedTensors

\* C3: the accumulator handed to the quantized kernel is an int32 tensor of
\* the resolved output shape.
C3_AccumulatorIsInt32OfOutputShape ==
  \A k \in KernelRuns :
    k.element = "uint8" =>
      /\ k.scratch_buffer.type = "kTfLiteInt32"
      /\ k.scratch_buffer.dims = k.output.dims

\* C4: the unfold buffer handed to the kernel has the data input's element
\* type and the shape (out_batch, out_height, out_width,
\* in_channels * filter_height * filter_width).
C4_Im2colTypeAndShape ==
  \A k \in KernelRuns :
    /\ k.im2col.type = k.input.type
    /\ k.im2col.dims = << k.output.dims[1], k.output.dims[2], k.output.dims[3],
                          k.input.dims[4] * k.weights.dims[2] * k.weights.dims[3] >>

\* C5: in quantized mode the unfold buffer and the accumulator are both
\* temporaries of the node after Prepare, and the two references Eval hands to
\* the kernel are different tensors, neither the output.
C5_ScratchBuffersDistinct ==
  /\ (lastOp = "Prepare" /\ status = kTfLiteOk /\ Quantized) =>
        {data.im2col_id, data.scratch_tensor_index}
          \subseteq {node.temporaries[i] : i \in DOMAIN node.temporaries}
  /\ \A k \in KernelRuns :
        k.element = "uint8" =>
          /\ k.im2col.id # k.scratch_buffer.id
          /\ k.im2col.id # k.output.id
          /\ k.scratch_buffer.id # k.output.id

C6_SpecIsBad ==
  \/ NumDimensions(OutputShapeT) # 1
  \/ OutputShapeT.type # "kTfLiteInt32"
  \/ NumElements(OutputShapeT) # 4

\* C6: an output-shape spec of rank other than 1, of a type other than int32
\* or of other than 4 elements makes the resolving step fail and never
\* reaches the kernel: Prepare fails for a constant spec (and for any spec of
\* the wrong rank), Eval fails for a non-constant spec.
C6_BadSpecIsRejected ==
  C6_SpecIsBad =>
    /\ (lastOp = "Prepare" /\ (SpecIsConstant \/ NumDimensions(OutputShapeT) # 1))
         => (status = kTfLiteError /\ ~prepared)
    /\ (lastOp = "Eval" /\ ~SpecIsConstant) => status = kTfLiteError
    /\ lastOp \in {"Prepare", "Eval"} => KernelRuns = {}

C6_Witness ==
  /\ lastOp = "Eval" /\ status = kTfLiteError
  /\ ~SpecIsConstant
  /\ NumDimensions(OutputShapeT) = 1
  /\ OutputShapeT.type = "kTfLiteInt32"
  /\ NumElements(OutputShapeT) = 5
  /\ Calls("ReportError") # {}

\* C7: a Prepare that finds the filter's element type different from the
\* input's returns an error having made no ResizeTensor call, reserved no
\* tensor slot and left the node's temporaries alone.
C7_TypeMismatchTouchesNothing ==
  (lastOp = "Prepare" /\ NumInputs(node) = 3 /\ WeightsT.type # InputT.type) =>
    /\ status = kTfLiteError
    /\ Calls("ResizeTensor") = {}
    /\ Calls("AddTensors") = {}
    /\ Calls("TfLiteIntArrayCreate") = {}

SlotsReserved == Cardinality(DOMAIN tensors) - 4

C8_SlotsState ==
  /\ phase = "created" => SlotsReserved = 0
  /\ phase = "ready" =>
       /\ data.scratch_tensor_index = 4
       /\ SlotsReserved = IF data.im2col_id = kTensorNotAllocated THEN 1 ELSE 2
       /\ data.im2col_id \in {kTensorNotAllocated, 5}
  /\ (lastOp = "Prepare" /\ NumInputs(node) = 3 /\ NumOutputs(node) = 1)
       => data.im2col_id # kTensorNotAllocated
  /\ lastOp = "Eval" => Calls("AddTensors") = {}
  /\ (lastOp = "Prepare" /\ prepareRepeated) => Calls("AddTensors") = {}

C8_SlotsStep ==
  /\ SlotsReserved' # SlotsReserved =>
       /\ SlotsReserved' = SlotsReserved + 1
       /\ \/ lastOp' = "Init"
          \/ lastOp' = "Prepare" /\ data.im2col_id = kTensorNotAllocated
                                 /\ data'.im2col_id = SlotsReserved + 4
  /\ (phase = "ready" /\ phase' = "ready" /\ data.im2col_id # kTensorNotAllocated)
       => data'.im2col_id = data.im2col_id

\* C8: one node reserves tensor slots twice at most: Init reserves the
\* accumulator slot, the first Prepare to reach the allocation reserves the
\* unfold buffer; no later Prepare and no Eval reserves a slot, and im2col_id,
\* once allocated, never changes.
C8_SlotsReservedOncePerBuffer == [](C8_SlotsState) /\ [][C8_SlotsStep]_vars

C8_Witness ==
  /\ lastOp = "Prepare" /\ prepareRepeated /\ status = kTfLiteOk
  /\ SlotsReserved = 2
  /\ data.im2col_id = 5

(* a callback's result as the context the next callback starts from *)
Next_Ctx(c) == Ctx(c.tensors, c.temporaries, c.data, c.unset)

SameNodeState(a, b) ==
  /\ a.tensors = b.tensors
  /\ a.temporaries = b.temporaries
  /\ a.data = b.data
  /\ a.unset = b.unset

\* C9: with a constant spec, Prepare run twice in a row leaves the state
\* Prepare run once leaves (tensors with their shapes and types, temporaries,
\* OpData with im2col_id and the quantization parameters, status), and an Eval
\* that follows computes the same padding in both cases.
C9_PrepareIdempotent ==
  (phase = "ready" /\ SpecIsConstant) =>
    LET once == Prepare(Cur, node)
        twice == Prepare(Next_Ctx(once), node)
    IN /\ SameNodeState(once, twice)
       /\ once.status = twice.status
       /\ once.status = kTfLiteOk =>
            Eval(Next_Ctx(once), node, kernel_type).data.padding
              = Eval(Next_Ctx(twice), node, kernel_type).data.padding
       /\ (lastOp = "Prepare" /\ prepareRepeated) =>
            /\ SameNodeState(Cur, once)
            /\ status = once.status

C9_Witness ==
  /\ lastOp = "Prepare" /\ prepareRepeated /\ status = kTfLiteOk
  /\ SpecIsConstant /\ Quantized
  /\ node.temporaries = <<data.scratch_tensor_index>>
  /\ OutputT.dims = OutputShapeT.i32

\* C10 as claimed: a successful Prepare with a constant spec leaves in OpData
\* the padding of the resolved shape, the buffer identifiers and (quantized)
\* multiplier, shift and activation range.
C10_PrepareSetsPaddingToo ==
  (lastOp = "Prepare" /\ status = kTfLiteOk /\ SpecIsConstant) =>
    /\ "padding" \notin unset
    /\ data.padding = PaddingFor(OutputT.dims)
    /\ data.im2col_id # kTensorNotAllocated
    /\ Quantized => unset = {}

\* C10 amended: a successful Prepare with a constant spec leaves the buffer
\* identifiers set and (quantized) multiplier, shift and activation range
\* computed; Prepare does not write OpData.padding, every Eval writes it
\* before the kernel reads it, and no kernel invocation reads an OpData field
\* that is still unset.
C10_StaticStateWithoutPadding ==
  /\ (lastOp = "Prepare" /\ status = kTfLiteOk /\ SpecIsConstant) =>
       /\ data.im2col_id = 5 /\ data.scratch_tensor_index = 4
       /\ data.im2col_index = 0
       /\ Calls("ComputePadding") = {}
       /\ evalSeq = "none" /\ ~prepareRepeated /\ "padding" \in unset
            => data.padding.height \in GarbageValues
       /\ Quantized =>
            LET m == GetQuantizedConvolutionMultipler(InputT, WeightsT, OutputT)
                q == QuantizeMultiplier(m.num, m.den)
            IN /\ unset \cap {"output_multiplier", "output_shift",
                               "output_activation_min", "output_activation_max"} = {}
               /\ data.output_multiplier = q.multiplier
               /\ data.output_shift = -q.exponent
               /\ data.output_activation_min = 0
               /\ data.output_activation_max = 255
  /\ \A i \in Calls("TransposeConv") :
       /\ log[i].read_unset = {}
       /\ \E j \in Calls("ComputePadding") :
            /\ j < i
            /\ log[i].op_params.padding_values.height = log[j].padding.height
            /\ log[i].op_params.padding_values.width = log[j].padding.width

C10_Witness ==
  /\ lastOp = "Eval" /\ status = kTfLiteOk
  /\ SpecIsConstant /\ Quantized
  /\ evalSeq = "first"
  /\ KernelRuns # {}
  /\ unset = {}

\* C11 as claimed: every Eval resolves the output shape, then computes the padding, then
\* resizes the scratch buffers (unfold buffer, accumulator) whose resize was
\* deferred, then runs the kernel: every resize of the output precedes the
\* padding, no resize of a scratch buffer precedes the padding, and no resize
\* follows the kernel invocation.
C11_EvalStepsInOrder ==
  lastOp = "Eval" =>
    /\ \A i \in Calls("ResizeTensor"), j \in Calls("ComputePadding") :
         IF log[i].tensor = OutputId THEN i < j ELSE j < i
    /\ \A i \in Calls("ResizeTensor") :
         log[i].tensor # OutputId => Calls("ComputePadding") # {}
    /\ \A i \in Calls("ResizeTensor") \cup Calls("ComputePadding"),
          k \in Calls("TransposeConv") : i < k
    /\ status = kTfLiteOk =>
         /\ Cardinality(Calls("ComputePadding")) = 1
         /\ Cardinality(Calls("TransposeConv")) = 1

(* the tensor Eval takes as the unfold buffer, and the accumulator *)
Im2colRef == node.temporaries[data.im2col_index + 1]
ScratchRef == node.temporaries[1]

CallKinds == [i \in DOMAIN log |->
                IF log[i].call = "ResizeTensor" THEN <<"ResizeTensor", log[i].tensor>>
                ELSE <<log[i].call>>]

\* C11 amended: a successful Eval makes its calls in the order: resize of the
\* output and resize of the tensor it takes as unfold buffer (each when that
\* tensor is dynamic), then the padding, then the deferred resize of the
\* accumulator (quantized mode), then the kernel, once; in any Eval the
\* output is resized first, only the accumulator is resized after the padding
\* is computed, and nothing is resized after the kernel invocation.
C11_ResizesThenPaddingThenKernel ==
  lastOp = "Eval" =>
    /\ status = kTfLiteOk =>
         CallKinds =
           (IF IsDynamicTensor(OutputT)
            THEN << <<"ResizeTensor", OutputId>> >> ELSE <<>>)
           \o (IF IsDynamicTensor(tensors[Im2colRef])
               THEN << <<"ResizeTensor", Im2colRef>> >> ELSE <<>>)
           \o << <<"ComputePadding">> >>
           \o (IF Quantized /\ IsDynamicTensor(tensors[ScratchRef])
               THEN << <<"ResizeTensor", ScratchRef>> >> ELSE <<>>)
           \o << <<"TransposeConv">> >>
    /\ \A i \in Calls("ResizeTensor") :
         /\ log[i].tensor = OutputId => i = 1
         /\ (\E j \in Calls("ComputePadding") : j < i)
              => (Quantized /\ log[i].tensor = ScratchRef)
         /\ \A k \in Calls("TransposeConv") : i < k
    /\ \A j \in Calls("ComputePadding"), k \in Calls("TransposeConv") : j < k

C11_Witness ==
  /\ lastOp = "Eval" /\ status = kTfLiteOk
  /\ Quantized /\ ~SpecIsConstant
  /\ Len(log) = 5
  /\ log[3].call = "ComputePadding"
  /\ log[4].call = "ResizeTensor"

(* q[1] + ... + q[n] *)
RECURSIVE SumTo(_, _)
SumTo(q, n) == IF n = 0 THEN 0 ELSE q[n] + SumTo(q, n - 1)

(* the element at (b, y, x, c) of a tensor, indices from 0 *)
At(t, b, y, x, c) == t.f[Offset(t.dims, b, y, x, c) + 1]

(* the transposed convolution by its definition: the sum, over the input
   elements (y, x, c_in) and the filter taps (ky, kx) with
   oy = y * stride_h - pad_h + ky and ox = x * stride_w - pad_w + kx, of
   input[b, y, x, c_in] * filter[c_out, ky, kx, c_in] *)
DirectTransposeConv(b, oy, ox, c_out) ==
  LET in_height == InputT.dims[2]
      in_width == InputT.dims[3]
      in_depth == InputT.dims[4]
      term(k) ==
        LET c_in == k % in_depth
            x == (k \div in_depth) % in_width
            y == (k \div in_depth) \div in_width
            ky == oy - y * node.builtin_data.stride_height + data.padding.height
            kx == ox - x * node.builtin_data.stride_width + data.padding.width
        IN IF ky \in 0..(WeightsT.dims[2] - 1) /\ kx \in 0..(WeightsT.dims[3] - 1)
           THEN At(InputT, b, y, x, c_in) * At(WeightsT, c_out, ky, kx, c_in)
           ELSE 0
  IN SumTo([k \in 1..(in_height * in_width * in_depth) |-> term(k - 1)],
           in_height * in_width * in_depth)

(* the position of the i-th element (from 0) of the output *)
OutputPosition(i) ==
  [c_out |-> i % OutputT.dims[4],
   ox |-> (i \div OutputT.dims[4]) % OutputT.dims[3],
   oy |-> ((i \div OutputT.dims[4]) \div OutputT.dims[3]) % OutputT.dims[2],
   b |-> ((i \div OutputT.dims[4]) \div OutputT.dims[3]) \div OutputT.dims[2]]

IsScenario ==
  /\ InputT.dims = <<1, 2, 2, 1>> /\ InputT.f = <<1, 1, 1, 1>>
  /\ WeightsT.dims = <<1, 2, 2, 1>> /\ WeightsT.f = <<1, 1, 1, 1>>
  /\ node.builtin_data.stride_height = 1 /\ node.builtin_data.stride_width = 1
  /\ node.builtin_data.padding = "kTfLitePaddingValid"
  /\ OutputShapeT.i32 = <<1, 3, 3, 1>>

\* C12: after a successful float Eval every output element at
\* (b, oy, ox, c_out) is the sum of input * filter over the input elements
\* and taps that land on it under the padding Eval computed; for input and
\* filter 2x2 of ones, stride 1, output 3x3 and valid padding the output is
\* 1 2 1 / 2 4 2 / 1 2 1.
C12_FloatOutputIsScatterSum ==
  (lastOp = "Eval" /\ status = kTfLiteOk /\ ~Quantized) =>
    /\ OutputT.dims = OutputShapeT.i32
    /\ data.padding = PaddingFor(OutputT.dims)
    /\ OutputT.f = [i \in 1..NumElements(OutputT) |->
                      LET p == OutputPosition(i - 1)
                      IN DirectTransposeConv(p.b, p.oy, p.ox, p.c_out)]
    /\ IsScenario => OutputT.f = <<1, 2, 1, 2, 4, 2, 1, 2, 1>>

C12_Witness ==
  /\ lastOp = "Eval" /\ status = kTfLiteOk /\ ~Quantized
  /\ IsScenario
  /\ data.padding = [height |-> 0, width |-> 0]
  /\ OutputT.f = <<1, 2, 1, 2, 4, 2, 1, 2, 1>>

(* the position the tap t lands on under the padding Eval computed *)
LandsY(t) == t.in_y * node.builtin_data.stride_height - data.padding.height + t.filter_y
LandsX(t) == t.in_x * node.builtin_data.stride_width - data.padding.width + t.filter_x

InResolvedBounds(oy, ox) ==
  /\ 0 <= oy /\ oy < OutputShapeT.i32[2]
  /\ 0 <= ox /\ ox < OutputShapeT.i32[3]

AllTaps == {TapAt(k, InputT.dims, WeightsT.dims)
              : k \in 0..(NumTaps(InputT.dims, WeightsT.dims) - 1)}

IsBoundaryCase ==
  /\ InputT.dims = <<1, 1, 1, 1>> /\ WeightsT.dims = <<1, 3, 3, 1>>
  /\ node.builtin_data.stride_height = 1 /\ node.builtin_data.stride_width = 1
  /\ node.builtin_data.padding = "kTfLitePaddingSame"
  /\ OutputShapeT.i32 = <<1, 3, 3, 1>>

\* C13: every write of the float kernel targets a position inside the
\* resolved output; the taps written are exactly the taps that land inside
\* it, a tap landing outside writes nothing, and an output element no tap
\* lands on stays 0 (input 1x1, filter 3x3, stride 1, output 3x3, same-size
\* padding: the four taps landing inside are the only ones written).
C13_WritesStayInBounds ==
  (lastOp = "Eval" /\ status = kTfLiteOk /\ ~Quantized) =>
    \A r \in KernelRuns :
      LET written == {r.writes[i] : i \in DOMAIN r.writes} IN
      /\ r.output.dims = OutputShapeT.i32
      /\ Len(OutputT.f) = NumElements(OutputT)
      /\ \A w \in written :
           /\ InResolvedBounds(w.out_y, w.out_x)
           /\ w.out_y = LandsY(w.tap) /\ w.out_x = LandsX(w.tap)
           /\ w.offset \in 1..NumElements(OutputT)
      /\ {w.tap : w \in written}
           = {t \in AllTaps : InResolvedBounds(LandsY(t), LandsX(t))}
      /\ Len(r.writes) = Cardinality(written)
      /\ \A o \in 1..NumElements(OutputT) :
           (\A w \in written : w.offset # o) => OutputT.f[o] = 0
      /\ IsBoundaryCase =>
           {<<w.tap.filter_y, w.tap.filter_x, w.out_y, w.out_x>> : w \in written}
             = {<<1, 1, 0, 0>>, <<1, 2, 0, 1>>, <<2, 1, 1, 0>>, <<2, 2, 1, 1>>}

C13_Witness ==
  /\ lastOp = "Eval" /\ status = kTfLiteOk /\ ~Quantized
  /\ IsBoundaryCase
  /\ data.padding = [height |-> 1, width |-> 1]
  /\ \E r \in KernelRuns : Len(r.writes) = 4
  /\ OutputT.f = <<1, 1, 0, 1, 1, 0, 0, 0, 0>>

QuantFields == {"output_multiplier", "output_shift",
                "output_activation_min", "output_activation_max"}

(* the node passes the sanity checks of Prepare, is quantized, and its
   combined scale is not a valid scale *)
CombinedScaleInvalid ==
  /\ NumInputs(node) = 3 /\ NumOutputs(node) = 1
  /\ Quantized
  /\ GetQuantizedConvolutionMultipler(InputT, WeightsT, OutputT).status = kTfLiteError

C14_Step ==
  (phase = "ready" /\ lastOp' = "Prepare" /\ CombinedScaleInvalid) =>
    /\ status' = kTfLiteError
    /\ ~prepared'
    /\ \A i \in DOMAIN log' : log'[i].call # "QuantizeMultiplier"
    /\ data'.output_multiplier = data.output_multiplier
    /\ data'.output_shift = data.output_shift
    /\ data'.output_activation_min = data.output_activation_min
    /\ data'.output_activation_max = data.output_activation_max
    /\ unset' \cap QuantFields = unset \cap QuantFields

\* C14: in quantized mode, when the combined scale
\* input.scale * filter.scale / output.scale is not a valid scale, Prepare
\* returns the error, makes no QuantizeMultiplier call and leaves
\* output_multiplier, output_shift, output_activation_min and
\* output_activation_max of OpData as they were.
C14_MultiplierErrorLeavesOpData == [][C14_Step]_vars

C14_Witness ==
  /\ lastOp = "Prepare" /\ status = kTfLiteError
  /\ CombinedScaleInvalid
  /\ WeightsT.type = InputT.type /\ OutputT.type = InputT.type /\ SpecOk
  /\ log[Len(log)] = [call |-> "ReportError",
                       what |-> "GetQuantizedConvolutionMultipler"]
  /\ tensors[data.scratch_tensor_index].type = "kTfLiteInt32"
  /\ QuantFields \subseteq unset
  /\ data.output_activation_max \in GarbageValues

(* the kernel library a variant invokes for an element type: EvalFloat
   switches on the variant, EvalQuantized always takes the reference kernel *)
ExpectedKernel(element, kt) ==
  IF element = "float" /\ kt = kGenericOptimized THEN "optimized_ops"
  ELSE "reference_ops"

OtherKernelType == IF kernel_type = kReference THEN kGenericOptimized ELSE kReference

(* what a run of Eval<kt> did, with the kernel library of each invocation
   replaced by whether it is the one expected of kt *)
Outcome(c, kt) ==
  [c EXCEPT !.log =
     [i \in DOMAIN c.log |->
        IF c.log[i].call = "TransposeConv"
        THEN [c.log[i] EXCEPT !.kernel = (@ = ExpectedKernel(c.log[i].element, kt))]
        ELSE c.log[i]]]

C15_Step ==
  (phase = "ready" /\ prepared /\ lastOp' = "Eval") =>
    /\ Outcome(Eval(Cur, node, OtherKernelType), OtherKernelType)
         = Outcome([tensors |-> tensors', temporaries |-> node'.temporaries,
                    data |-> data', unset |-> unset', log |-> log',
                    status |-> status'], kernel_type)
    /\ \A i \in DOMAIN log' :
         log'[i].call = "TransposeConv"
           => log'[i].kernel = ExpectedKernel(log'[i].element, kernel_type)

\* C15: on the same node state and inputs Eval<kReference> and
\* Eval<kGenericOptimized> return the same status, make the same resizes,
\* compute the same padding and hand their kernel the same parameters
\* (padding, strides, shapes, buffers); only the float kernel invoked differs,
\* and on the quantized path both invoke the reference kernel.
C15_KernelVariantsAgree == [][C15_Step]_vars

C15_Witness ==
  /\ lastOp = "Eval" /\ status = kTfLiteOk
  /\ kernel_type = kReference /\ Quantized
  /\ \E r \in KernelRuns : r.kernel = "reference_ops" /\ r.element = "uint8"

UnsupportedTypes == {"kTfLiteInt16", "kTfLiteInt8"}

(* the context Eval starts from when the data input has element type t *)
CurWithInputType(t) ==
  [Cur EXCEPT !.tensors[GetInput(node, kDataInputTensor)].type = t]

\* C16: a data input of a type other than float32 and uint8 is a type error:
\* Prepare returns an error for it having resized no tensor, and an Eval that
\* sees such a type reports the error and fails without a kernel invocation,
\* having resized no tensor and not written OpData.padding.
C16_UnsupportedTypeRejectedAtStart ==
  /\ (lastOp = "Prepare" /\ NumInputs(node) = 3 /\ NumOutputs(node) = 1
        /\ InputT.type \notin {"kTfLiteFloat32", "kTfLiteUInt8"}) =>
       /\ status = kTfLiteError
       /\ Calls("ResizeTensor") = {}
  /\ (phase = "ready" /\ prepared) =>
       \A t \in UnsupportedTypes :
         LET e == Eval(CurWithInputType(t), node, kernel_type) IN
         /\ e.status = kTfLiteError
         /\ \E i \in DOMAIN e.log : e.log[i].call = "ReportError"
         /\ \A i \in DOMAIN e.log : e.log[i].call # "TransposeConv"
         /\ \A i \in DOMAIN e.log : e.log[i].call # "ResizeTensor"
         /\ e.data.padding = data.padding
         /\ e.unset = unset

(* what QuantizeMultiplier returns for the node's combined scale *)
NodeMultiplier ==
  LET m == GetQuantizedConvolutionMultipler(InputT, WeightsT, OutputT)
  IN QuantizeMultiplier(m.num, m.den)

C17_State ==
  (lastOp = "Eval" /\ Quantized) =>
    \A k \in KernelRuns :
      /\ data.output_shift = -NodeMultiplier.exponent
      /\ k.op_params.output_shift = NodeMultiplier.exponent
      /\ data.output_multiplier = NodeMultiplier.multiplier
      /\ k.op_params.output_multiplier = NodeMultiplier.multiplier
      /\ k.op_params.quantized_activation_min = data.output_activation_min
      /\ k.op_params.quantized_activation_max = data.output_activation_max
      /\ data.output_activation_min = CalculateActivationRangeUint8(OutputT).min
      /\ data.output_activation_max = CalculateActivationRangeUint8(OutputT).max

C17_Step ==
  (phase = "ready" /\ lastOp' = "Eval") =>
    /\ data'.output_multiplier = data.output_multiplier
    /\ data'.output_shift = data.output_shift
    /\ data'.output_activation_min = data.output_activation_min
    /\ data'.output_activation_max = data.output_activation_max

\* C17: the quantized kernel is handed the multiplier QuantizeMultiplier
\* returned and, as output_shift, the exponent e it returned (OpData stores
\* -e, EvalQuantized negates it again), with the activation range Prepare
\* stored; no Eval changes multiplier, shift or activation range in OpData.
C17_QuantParamsReachKernel == [](C17_State) /\ [][C17_Step]_vars

C17_Witness ==
  /\ lastOp = "Eval" /\ status = kTfLiteOk /\ Quantized
  /\ NodeMultiplier.exponent = -1
  /\ data.output_shift = 1
  /\ \E k \in KernelRuns :
       /\ k.op_params.output_shift = -1
       /\ k.op_params.output_multiplier = 3 * Pow2(29)
       /\ k.op_params.quantized_activation_max = 255

(* the node passes the sanity checks of Prepare (lines 151-178) *)
PassesSanityChecks ==
  /\ NumInputs(node) = 3 /\ NumOutputs(node) = 1
  /\ NumDimensions(OutputShapeT) = 1
  /\ NumDimensions(InputT) = 4 /\ NumDimensions(WeightsT) = 4
  /\ InputT.type \in {"kTfLiteFloat32", "kTfLiteUInt8"}
  /\ WeightsT.type = InputT.type /\ OutputT.type = InputT.type
  /\ SizeOfDimension(InputT, 3) = SizeOfDimension(WeightsT, 3)

WrongCountSpec ==
  /\ PassesSanityChecks
  /\ OutputShapeT.type = "kTfLiteInt32"
  /\ NumElements(OutputShapeT) # 4

C18_Step ==
  (/\ phase = "ready" /\ WrongCountSpec
   /\ \/ lastOp' = "Prepare" /\ SpecIsConstant
      \/ lastOp' = "Eval" /\ ~SpecIsConstant) =>
    /\ status' = kTfLiteError
    /\ \E i \in DOMAIN log' :
         /\ log'[i] = [call |-> "ResizeTensor", tensor |-> OutputId,
                        dims |-> OutputShapeT.i32]
         /\ \A j \in 1..(i - 1) : log'[j].call \notin {"ResizeTensor", "ReportError"}
         /\ \A j \in (i + 1)..Len(log') : log'[j].call # "ResizeTensor"
    /\ log'[Len(log')] = [call |-> "ReportError",
                          what |-> "NumElements(output_shape) != 4"]
    /\ tensors'[OutputId].dims = OutputShapeT.i32
    /\ Len(tensors'[OutputId].dims) = NumElements(OutputShapeT)
    /\ OutputT.dims # OutputShapeT.i32 => tensors'[OutputId].dims # OutputT.dims

\* C18: with an int32 output-shape spec of rank 1 and n # 4 elements, the
\* call that fails on the element count (Prepare for a constant spec, Eval
\* for a non-constant one) has by then resized the output to the n values of
\* the spec: the output resize comes first and does not check the count, so
\* the failed call changes the output's shape.
C18_OutputResizedBeforeCountError == [][C18_Step]_vars

C18_Witness ==
  /\ lastOp = "Eval" /\ status = kTfLiteError
  /\ ~SpecIsConstant /\ WrongCountSpec
  /\ NumElements(OutputShapeT) = 5
  /\ OutputT.dims = OutputShapeT.i32
  /\ Len(OutputT.dims) = 5
  /\ evalSeq = "respecified"

====
